---------------------------- MODULE Spec2Model ----------------------------
(***************************************************************************)
(* Transcode-and-Quiz engine of thr3a/audio-quality-quiz.                  *)
(*                                                                         *)
(* The model follows the use-sound (Howl) variant of the AudioQuiz         *)
(* component, src/unnamed/part_000: the engine lifecycle (loadCore), the   *)
(* file input, handleConvert with every await as a separate step, the      *)
(* ledger of object URLs (objectUrlsRef), the presented track list, the    *)
(* per-track players (AudioTrackPlayer) and the teardown effect.           *)
(*                                                                         *)
(* Strings are sequences of tokens, so that concatenation, lastIndexOf,    *)
(* slice and startsWith are computed and not assumed.                      *)
(***************************************************************************)
EXTENDS Integers, Sequences, FiniteSets, TLC

(***************************************************************************)
(* Program constants.                                                      *)
(***************************************************************************)
MAX_PLAY_SECONDS == 120

SeekStep == 5

(***************************************************************************)
(* Bounds of the model.                                                    *)
(***************************************************************************)
\* handleConvert runs that pass the gates
MaxRuns == 2

\* largest reading of Date.now()
MaxNow == 0

\* seek requests issued by the user
MaxSeeks == 1

\* calls that the engine fails
MaxFaults == 2

\* duration of the short input file, in seconds
ShortDur == 4

\* seconds by which the long input file exceeds MAX_PLAY_SECONDS
Overrun == 1

\* seconds of playback between two observations of a playing sound
TickStep == 60

LongDur == MAX_PLAY_SECONDS + Overrun

Min(a, b) == IF a < b THEN a ELSE b

Max(a, b) == IF a > b THEN a ELSE b

(***************************************************************************)
(* Values.                                                                 *)
(***************************************************************************)
Quality == {"mp3_128", "mp3_320", "original"}

NoFile == [name |-> <<>>, type |-> "", dur |-> 0]

\* the files the user can pick: one with an extension and a MIME type that
\* runs longer than the cap, one short file without extension or type
Files ==
  { [name |-> <<"song", ".", "wav">>, type |-> "audio/wav", dur |-> LongDur],
    [name |-> <<"clip">>, type |-> "", dur |-> ShortDur] }

NoTrack == <<>>

NoSound == [playing |-> FALSE, pos |-> -1]

NoAnswer == "null"

\* String.prototype.lastIndexOf for a one-token pattern, 0-based, -1 if absent
LastIndexOf(s, c) ==
  LET hits == {i \in 1..Len(s) : s[i] = c}
  IN  IF hits = {} THEN -1
      ELSE (CHOOSE i \in hits : \A j \in hits : j <= i) - 1

\* String.prototype.startsWith
StartsWith(s, p) == Len(p) <= Len(s) /\ SubSeq(s, 1, Len(p)) = p

baseFileName(f) ==
  IF f = NoFile THEN <<"upload">>
  ELSE LET dotIndex == LastIndexOf(f.name, ".")
       IN  IF dotIndex > 0 THEN SubSeq(f.name, 1, dotIndex) ELSE f.name

originalExtension(f) ==
  IF f = NoFile THEN <<"orig">>
  ELSE LET dotIndex == LastIndexOf(f.name, ".")
       IN  IF dotIndex > 0 THEN SubSeq(f.name, dotIndex + 2, Len(f.name))
           ELSE <<"orig">>

getMimeByQuality(quality, originalType) ==
  IF quality = "original"
  THEN (IF originalType = "" THEN "audio/mpeg" ELSE originalType)
  ELSE "audio/mpeg"

createTrackId(base, quality) == base \o <<"-", quality>>

BaseIdentifier(f, ts) == baseFileName(f) \o <<"_", ToString(ts)>>

InputName(baseId, f) == baseId \o <<"_input.">> \o originalExtension(f)

\* the three fixed plans of handleConvert, in the order of the loop
outputPlans(baseId, f) ==
  << [quality |-> "mp3_128", outputName |-> baseId \o <<"_128.mp3">>,
      codec |-> "libmp3lame", mime |-> getMimeByQuality("mp3_128", f.type)],
     [quality |-> "mp3_320", outputName |-> baseId \o <<"_320.mp3">>,
      codec |-> "libmp3lame", mime |-> getMimeByQuality("mp3_320", f.type)],
     [quality |-> "original",
      outputName |-> baseId \o <<"_original.">> \o originalExtension(f),
      codec |-> "copy", mime |-> getMimeByQuality("original", f.type)] >>

NumPlans == Len(outputPlans(<<>>, NoFile))

(***************************************************************************)
(* shuffle: [...items].sort(() => Math.random() - 0.5).  The copy is       *)
(* sorted by insertion with a comparator whose answers are arbitrary, so   *)
(* each element can land at any position among those already placed.       *)
(***************************************************************************)
InsertAt(s, k, x) == SubSeq(s, 1, k - 1) \o <<x>> \o SubSeq(s, k, Len(s))

\* a sort whose comparator never moves anything
SortStable(items, n) == {SubSeq(items, 1, n)}

RECURSIVE SortRandom(_, _)
SortRandom(items, n) ==
  IF n = 0 THEN {<<>>}
  ELSE UNION { {InsertAt(s, k, items[n]) : k \in 1..(Len(s) + 1)} :
               s \in SortRandom(items, n - 1) }

\* a shuffle that loses elements: every place holds the first item
shuffleRepeating(items) == {[i \in 1..Len(items) |-> items[1]]}

shuffle(items) == SortRandom(items, Len(items))

(***************************************************************************)
(* Feedback messages (FeedbackState), by the handler that sets them.       *)
(***************************************************************************)
NoFeedback == [text |-> "null", tone |-> "null"]

LoadFailed == [text |-> "core load failed", tone |-> "error"]

NotReady == [text |-> "load FFmpeg first", tone |-> "error"]

NoInput == [text |-> "select a file", tone |-> "error"]

Converted == [text |-> "conversion done", tone |-> "success"]

TranscodeFailure == [text |-> "conversion failed", tone |-> "error"]

EmptyTrackSet == [text |-> "convert first", tone |-> "error"]

IncompleteAnswers == [text |-> "answer every track", tone |-> "error"]

(***************************************************************************)
(* State.                                                                  *)
(***************************************************************************)
VARIABLES
  mounted,          \* the component is mounted: ffmpegRef.current is an engine
  coreLoaded,       \* useDisclosure flags
  coreLoading,
  converting,
  file,             \* the selected File, or NoFile
  now,              \* the last reading of Date.now()
  runs,             \* handleConvert runs that passed the gates
  pc,               \* the await at which the run in flight is suspended
  planIdx,          \* index of the plan the loop is at
  runFile,          \* the file captured by the run in flight
  baseIdentifier,   \* session identifier of the run in flight
  preparedTracks,   \* the run's local list
  fs,               \* the engine's virtual file system, in creation order
  pending,          \* engine calls in flight, in the order they were issued
  blobs,            \* the live object URLs: blobs[url] is its resource
  staleRevokes,     \* URLs revoked while not live
  objectUrls,       \* objectUrlsRef.current
  tracks,           \* the presented track list
  selectedAnswers,  \* track id -> Quality or NoAnswer
  feedback,
  playingTrackId,   \* React state of the Howl variant
  sounds,           \* sounds[i]: the Howl of the player of tracks[i]
  soundMap,         \* soundMapRef: soundMap[i] iff the entry holds the Howl
  orphans,          \* URLs whose Howl still plays after its player unmounted
  seeks,            \* seek requests issued so far
  renderedAnswers,  \* selectedAnswers as the handlers of the last render hold it
  audio,            \* the refs and <audio> elements of the audio-element variant
  faults            \* engine calls that have failed so far

vars ==
  << mounted, coreLoaded, coreLoading, converting, file, now, runs, pc,
     planIdx, runFile, baseIdentifier, preparedTracks, fs, pending, blobs,
     staleRevokes, objectUrls, tracks, selectedAnswers, feedback, playingTrackId, sounds,
     soundMap, orphans, seeks, faults, renderedAnswers, audio >>

engineVars == << fs, pending, faults >>

ledgerVars == << blobs, staleRevokes, objectUrls >>

runVars == << pc, planIdx, runFile, baseIdentifier, preparedTracks >>

playVars == << playingTrackId, sounds, soundMap, orphans, seeks >>

EmptyMap == [x \in {} |-> x]

\* the audio-element variant before any track is rendered: no element, empty
\* refs, no listener, no handler made, nothing recorded as playing
AudioInit ==
  [audioRefs |-> EmptyMap,
   limitHandlersRef |-> EmptyMap,
   endedHandlersRef |-> EmptyMap,
   audioRefCallbacks |-> {},
   playingTrackIdRef |-> NoTrack,
   dom |-> EmptyMap,
   media |-> <<>>,
   listeners |-> <<>>,
   handlers |-> <<>>]

Init ==
  /\ mounted = TRUE
  /\ coreLoaded = FALSE
  /\ coreLoading = FALSE
  /\ converting = FALSE
  /\ file = NoFile
  /\ now = 0
  /\ runs = 0
  /\ pc = "idle"
  /\ planIdx = 0
  /\ runFile = NoFile
  /\ baseIdentifier = <<>>
  /\ preparedTracks = <<>>
  /\ fs = <<>>
  /\ pending = <<>>
  /\ blobs = EmptyMap
  /\ staleRevokes = {}
  /\ objectUrls = {}
  /\ tracks = <<>>
  /\ selectedAnswers = EmptyMap
  /\ renderedAnswers = EmptyMap
  /\ audio = AudioInit
  /\ feedback = NoFeedback
  /\ playingTrackId = NoTrack
  /\ sounds = <<>>
  /\ soundMap = <<>>
  /\ orphans = {}
  /\ seeks = 0
  /\ faults = 0

\* <LoadingOverlay visible={coreLoading || converting} /> covers the controls
OverlayVisible == coreLoading \/ converting


(***************************************************************************)
(* Object URLs.  blobs is the hosting environment's store: it maps every   *)
(* live URL to its resource, and URL.revokeObjectURL removes the entry and *)
(* frees the buffer.  URL.createObjectURL hands out a URL never used       *)
(* before: the k-th URL of run r is <<r, k>>.  staleRevokes collects the   *)
(* URLs on which revokeObjectURL was called while they were not live.      *)
(***************************************************************************)
\* a URL that is revoked as soon as it is made
createObjectURLRevoked(b, url, mime, dur) == b

createObjectURL(b, url, mime, dur) ==
  [u \in DOMAIN b \cup {url} |->
     IF u = url THEN [mime |-> mime, dur |-> dur] ELSE b[u]]

revokeEach(b, urls) == [u \in DOMAIN b \ urls |-> b[u]]

\* revokeTrackUrls without objectUrlsRef.current.clear()
revokeWithoutClear(b, urls) ==
  [blobs |-> revokeEach(b, urls), objectUrls |-> urls,
   stale |-> urls \ DOMAIN b]

\* revokeTrackUrls: revoke every registered URL, then clear the set
revokeTrackUrls(b, urls) ==
  [blobs |-> revokeEach(b, urls), objectUrls |-> {},
   stale |-> urls \ DOMAIN b]

(***************************************************************************)
(* The engine (ffmpeg.wasm), at its interface: a virtual file system and   *)
(* calls that are answered one at a time in the order they were issued.    *)
(***************************************************************************)
Call(op, name) == [op |-> op, name |-> name, run |-> runs]

FsNames(dir) == {dir[i].name : i \in 1..Len(dir)}

FsWrite(dir, name, dur) ==
  IF name \in FsNames(dir)
  THEN [i \in 1..Len(dir) |->
          IF dir[i].name = name THEN [name |-> name, dur |-> dur] ELSE dir[i]]
  ELSE Append(dir, [name |-> name, dur |-> dur])

FsDelete(dir, name) == SelectSeq(dir, LAMBDA e : e.name # name)

FsDur(dir, name) ==
  LET i == CHOOSE j \in 1..Len(dir) : dir[j].name = name IN dir[i].dur

\* what exec can write for a plan: '-t 120' cuts the re-encodes at the limit;
\* with '-c copy' the cut falls on a packet boundary, so the copy may run
\* past the limit by up to Overrun
ExecDurations(plan, inputDur) ==
  IF plan.codec = "copy"
  THEN {Min(inputDur, MAX_PLAY_SECONDS), Min(inputDur, MAX_PLAY_SECONDS + Overrun)}
  ELSE {Min(inputDur, MAX_PLAY_SECONDS)}

HeadIs(op) == pending # <<>> /\ Head(pending).op = op

\* the engine fails the call it is answering
Fault == faults < MaxFaults /\ faults' = faults + 1

(***************************************************************************)
(* loadCore.                                                               *)
(***************************************************************************)
LoadCore ==
  /\ mounted /\ ~OverlayVisible
  /\ ~coreLoaded
  /\ coreLoading' = TRUE
  /\ UNCHANGED << mounted, coreLoaded, converting, file, now, runs, runVars,
                  engineVars, ledgerVars, tracks, selectedAnswers, feedback,
                  playVars >>
  /\ renderedAnswers' = selectedAnswers'
  /\ UNCHANGED audio

LoadCoreDone ==
  /\ mounted /\ coreLoading
  /\ \/ /\ coreLoaded' = TRUE
        /\ UNCHANGED << feedback, faults >>
     \/ /\ Fault
        /\ feedback' = LoadFailed
        /\ UNCHANGED coreLoaded
  /\ coreLoading' = FALSE
  /\ UNCHANGED << mounted, converting, file, now, runs, runVars, fs, pending,
                  ledgerVars, tracks, selectedAnswers, playVars >>
  /\ renderedAnswers' = selectedAnswers'
  /\ UNCHANGED audio

\* <FileInput value={file} onChange={setFile} />
SetFile ==
  /\ mounted /\ ~OverlayVisible
  /\ \E f \in Files \cup {NoFile} : f # file /\ file' = f
  /\ UNCHANGED << mounted, coreLoaded, coreLoading, converting, now, runs,
                  runVars, engineVars, ledgerVars, tracks, selectedAnswers,
                  feedback, playVars >>
  /\ renderedAnswers' = selectedAnswers'
  /\ UNCHANGED audio

(***************************************************************************)
(* handleConvert.                                                          *)
(***************************************************************************)
\* the gates without the readiness test
ConvertGateFileOnly(ready, f) ==
  IF f = NoFile THEN NoInput ELSE [text |-> "pass", tone |-> "null"]

\* the gates, in the order of the code: the failure they report, or "pass"
ConvertGate(ready, f) ==
  IF ~ready THEN NotReady
  ELSE IF f = NoFile THEN NoInput
  ELSE [text |-> "pass", tone |-> "null"]

\* resetPlayingState, and the players unmounting with the emptied list: a
\* Howl that was playing is neither stopped nor unloaded
StillSounding == {tracks[i].url : i \in {j \in 1..Len(tracks) : sounds[j].playing}}

\* the call returns at a gate: only the feedback is set
HandleConvertRefused ==
  /\ mounted /\ ~converting
  /\ ConvertGate(coreLoaded, file).text # "pass"
  /\ feedback' = ConvertGate(coreLoaded, file)
  /\ UNCHANGED << mounted, coreLoaded, coreLoading, converting, file, now,
                  runs, runVars, engineVars, ledgerVars, tracks,
                  selectedAnswers, playVars >>
  /\ renderedAnswers' = selectedAnswers'
  /\ UNCHANGED audio

\* the gates pass: everything up to the first await
HandleConvert ==
  /\ mounted /\ ~converting
  /\ runs < MaxRuns
  /\ ConvertGate(coreLoaded, file).text = "pass"
  /\ converting' = TRUE
  /\ playingTrackId' = NoTrack
  /\ soundMap' = <<>>
  /\ LET r == revokeTrackUrls(blobs, objectUrls)
     IN  /\ blobs' = r.blobs
         /\ objectUrls' = r.objectUrls
         /\ staleRevokes' = staleRevokes \cup r.stale
  /\ tracks' = <<>>
  /\ sounds' = <<>>
  /\ orphans' = orphans \cup StillSounding
  /\ \E ts \in now..MaxNow :
        /\ now' = ts
        /\ baseIdentifier' = BaseIdentifier(file, ts)
        /\ pending' = Append(pending,
             [op |-> "writeFile",
              name |-> InputName(BaseIdentifier(file, ts), file),
              run |-> runs + 1])
  /\ runs' = runs + 1
  /\ runFile' = file
  /\ preparedTracks' = <<>>
  /\ planIdx' = 0
  /\ pc' = "writeFile"
  /\ UNCHANGED << mounted, coreLoaded, coreLoading, file, fs, faults,
                  selectedAnswers, feedback, seeks >>
  /\ renderedAnswers' = selectedAnswers'
  /\ UNCHANGED audio


CurrentPlan == outputPlans(baseIdentifier, runFile)[planIdx]

\* a loop body that forgets objectUrlsRef.current.add(url)
registerNothing(urls, url) == urls

\* objectUrlsRef.current.add(url)
register(urls, url) == urls \cup {url}

\* a loop body that presents each track as soon as it is prepared
presentedEagerly(current, prepared, k) == {prepared}

\* the track list after the loop body has run for plan k: the prepared tracks
\* are presented, shuffled, only once the loop is over
presentedAfterPlan(current, prepared, k) ==
  IF k = NumPlans THEN shuffle(prepared) ELSE {current}

\* initial answers that stop after the first track
initialAnswersFirstOnly(shuffled) ==
  [id \in {shuffled[i].id : i \in 1..Min(Len(shuffled), 1)} |-> NoAnswer]

\* initialAnswers
initialAnswers(shuffled) ==
  [id \in {shuffled[i].id : i \in 1..Len(shuffled)} |-> NoAnswer]

\* a finally block that stops after the first entry of the session
cleanupFirstOnly(dir, baseId) ==
  LET mine == SelectSeq(dir, LAMBDA e : StartsWith(e.name, baseId))
  IN  [i \in 1..Min(Len(mine), 1) |-> Call("deleteFile", mine[i].name)]

\* the finally block after listDir('.') answered with the directory dir: one
\* deleteFile call per entry of this session, none of them awaited
cleanupCalls(dir, baseId) ==
  LET mine == SelectSeq(dir, LAMBDA e : StartsWith(e.name, baseId))
  IN  [i \in 1..Len(mine) |-> Call("deleteFile", mine[i].name)]

\* a catch that reports and returns, with no finally after it
FailRunNoFinally ==
  /\ feedback' = TranscodeFailure
  /\ pending' = Tail(pending)
  /\ pc' = "idle"
  /\ UNCHANGED << mounted, coreLoaded, coreLoading, converting, file, now,
                  runs, planIdx, runFile, baseIdentifier, preparedTracks, fs,
                  ledgerVars, tracks, selectedAnswers, playVars >>

\* a catch inside the loop: report, then go on with the next plan
FailRunContinue ==
  /\ feedback' = TranscodeFailure
  /\ IF planIdx \in 1..(NumPlans - 1)
     THEN /\ planIdx' = planIdx + 1
          /\ pending' = Append(Tail(pending),
               Call("exec", outputPlans(baseIdentifier, runFile)
                              [planIdx + 1].outputName))
          /\ pc' = "exec"
     ELSE /\ planIdx' = planIdx
          /\ pending' = Append(Tail(pending), Call("listDir", <<".">>))
          /\ pc' = "listDir"
  /\ UNCHANGED << mounted, coreLoaded, coreLoading, converting, file, now,
                  runs, runFile, baseIdentifier, preparedTracks, fs,
                  ledgerVars, tracks, selectedAnswers, playVars >>

\* catch: log, report; finally: ask for the directory
FailRun ==
  /\ feedback' = TranscodeFailure
  /\ pending' = Append(Tail(pending), Call("listDir", <<".">>))
  /\ pc' = "listDir"
  /\ UNCHANGED << mounted, coreLoaded, coreLoading, converting, file, now,
                  runs, planIdx, runFile, baseIdentifier, preparedTracks, fs,
                  ledgerVars, tracks, selectedAnswers, playVars >>

\* await ffmpeg.writeFile(inputName, await fetchFile(file))
WriteFileDone ==
  /\ mounted /\ pc = "writeFile" /\ HeadIs("writeFile")
  /\ \/ /\ fs' = FsWrite(fs, Head(pending).name, runFile.dur)
        /\ planIdx' = 1
        /\ pending' = Append(Tail(pending),
             Call("exec", outputPlans(baseIdentifier, runFile)[1].outputName))
        /\ pc' = "exec"
        /\ UNCHANGED << mounted, coreLoaded, coreLoading, converting, file,
                        now, runs, runFile, baseIdentifier, preparedTracks,
                        ledgerVars, tracks, selectedAnswers, feedback,
                        playVars, faults >>
     \/ Fault /\ FailRun
  /\ renderedAnswers' = selectedAnswers'
  /\ UNCHANGED audio

\* await ffmpeg.exec(args)
ExecDone ==
  /\ mounted /\ pc = "exec" /\ HeadIs("exec")
  /\ \/ \* the output is written, or the command ends without one
        /\ \/ /\ InputName(baseIdentifier, runFile) \in FsNames(fs)
              /\ \E d \in ExecDurations(CurrentPlan,
                            FsDur(fs, InputName(baseIdentifier, runFile))) :
                    fs' = FsWrite(fs, CurrentPlan.outputName, d)
              /\ UNCHANGED faults
           \/ Fault /\ fs' = fs
        /\ pending' = Append(Tail(pending),
                             Call("readFile", CurrentPlan.outputName))
        /\ pc' = "readFile"
        /\ UNCHANGED << mounted, coreLoaded, coreLoading, converting, file,
                        now, runs, planIdx, runFile, baseIdentifier,
                        preparedTracks, ledgerVars, tracks, selectedAnswers,
                        feedback, playVars >>
     \/ Fault /\ FailRun
  /\ renderedAnswers' = selectedAnswers'
  /\ UNCHANGED audio

\* await ffmpeg.readFile(plan.outputName), and the rest of the loop body; after
\* the last plan, the rest of the try block
ReadFileDone ==
  /\ mounted /\ pc = "readFile" /\ HeadIs("readFile")
  /\ \/ /\ CurrentPlan.outputName \in FsNames(fs)
        /\ LET url == <<runs, planIdx>>
               track == [id |-> createTrackId(baseIdentifier, CurrentPlan.quality),
                         quality |-> CurrentPlan.quality,
                         fileName |-> CurrentPlan.outputName,
                         url |-> url]
               prepared == Append(preparedTracks, track)
           IN  /\ blobs' = createObjectURL(blobs, url, CurrentPlan.mime,
                                           FsDur(fs, CurrentPlan.outputName))
               /\ staleRevokes' = staleRevokes
               /\ objectUrls' = register(objectUrls, url)
               /\ preparedTracks' = prepared
               /\ tracks' \in presentedAfterPlan(tracks, prepared, planIdx)
               /\ sounds' = [i \in 1..Len(tracks') |-> NoSound]
               /\ soundMap' = [i \in 1..Len(tracks') |-> FALSE]
               /\ IF planIdx < NumPlans
                  THEN /\ planIdx' = planIdx + 1
                       /\ pending' = Append(Tail(pending),
                            Call("exec", outputPlans(baseIdentifier, runFile)
                                           [planIdx + 1].outputName))
                       /\ pc' = "exec"
                       /\ UNCHANGED << selectedAnswers, feedback >>
                  ELSE /\ selectedAnswers' = initialAnswers(tracks')
                       /\ feedback' = Converted
                       /\ pending' = Append(Tail(pending),
                                            Call("listDir", <<".">>))
                       /\ pc' = "listDir"
                       /\ UNCHANGED planIdx
        /\ UNCHANGED << mounted, coreLoaded, coreLoading, converting, file,
                        now, runs, runFile, baseIdentifier, fs, faults,
                        playingTrackId, orphans, seeks >>
     \/ /\ CurrentPlan.outputName \notin FsNames(fs)
        /\ UNCHANGED faults
        /\ FailRun
     \/ Fault /\ FailRun
  /\ renderedAnswers' = selectedAnswers'
  /\ UNCHANGED audio

\* await ffmpeg.listDir('.'), the deletions, finishConverting
ListDirDone ==
  /\ mounted /\ pc = "listDir" /\ HeadIs("listDir")
  /\ \/ /\ pending' = Tail(pending) \o cleanupCalls(fs, baseIdentifier)
        /\ UNCHANGED faults
     \/ /\ Fault
        /\ pending' = Tail(pending)
  /\ converting' = FALSE
  /\ pc' = "idle"
  /\ planIdx' = 0
  /\ runFile' = NoFile
  /\ baseIdentifier' = <<>>
  /\ preparedTracks' = <<>>
  /\ UNCHANGED << mounted, coreLoaded, coreLoading, file, now, runs, fs,
                  ledgerVars, tracks, selectedAnswers, feedback, playVars >>
  /\ renderedAnswers' = selectedAnswers'
  /\ UNCHANGED audio

\* a deleteFile call is answered; nobody waits for the answer
DeleteFileDone ==
  /\ mounted /\ HeadIs("deleteFile")
  /\ \/ /\ fs' = FsDelete(fs, Head(pending).name)
        /\ UNCHANGED faults
     \/ /\ Fault
        /\ fs' = fs
  /\ pending' = Tail(pending)
  /\ UNCHANGED << mounted, coreLoaded, coreLoading, converting, file, now,
                  runs, runVars, ledgerVars, tracks, selectedAnswers,
                  feedback, playVars >>
  /\ renderedAnswers' = selectedAnswers'
  /\ UNCHANGED audio

(***************************************************************************)
(* Teardown: the cleanup of the mount effect.  terminate() rejects every   *)
(* call in flight, so a run that is suspended is resumed with a rejection  *)
(* once the cleanup has returned (pc "terminated", RunRejected below).     *)
(* The component's state is gone with the component; the refs (the ledger) *)
(* and the hosting environment remain.                                     *)
(***************************************************************************)
Teardown ==
  /\ mounted
  /\ mounted' = FALSE
  /\ LET r == revokeTrackUrls(blobs, objectUrls)
     IN  /\ blobs' = r.blobs
         /\ objectUrls' = r.objectUrls
         /\ staleRevokes' = staleRevokes \cup r.stale
  /\ pending' = <<>>
  /\ fs' = <<>>
  /\ pc' = IF pc = "idle" THEN "idle" ELSE "terminated"
  /\ runFile' = NoFile
  /\ baseIdentifier' = <<>>
  /\ preparedTracks' = <<>>
  /\ coreLoaded' = FALSE
  /\ coreLoading' = FALSE
  /\ converting' = FALSE
  /\ file' = NoFile
  /\ tracks' = <<>>
  /\ selectedAnswers' = EmptyMap
  /\ feedback' = NoFeedback
  /\ playingTrackId' = NoTrack
  /\ sounds' = <<>>
  /\ soundMap' = <<>>
  /\ orphans' = orphans \cup StillSounding
  /\ UNCHANGED << now, runs, seeks, faults, planIdx >>
  /\ renderedAnswers' = selectedAnswers'
  /\ UNCHANGED audio

\* a rejected run that goes on all the same: it makes and registers the
\* locator of the plan it was waiting for
RunContinues ==
  /\ ~mounted /\ pc = "terminated"
  /\ blobs' = createObjectURL(blobs, << runs, planIdx >>, "", 0)
  /\ objectUrls' = register(objectUrls, << runs, planIdx >>)
  /\ pc' = "idle"
  /\ UNCHANGED << mounted, coreLoaded, coreLoading, converting, file, now,
                  runs, planIdx, runFile, baseIdentifier, preparedTracks,
                  engineVars, staleRevokes, tracks, selectedAnswers, feedback,
                  playVars >>
  /\ renderedAnswers' = selectedAnswers'
  /\ UNCHANGED audio

\* the run that was suspended when the component went: its call is rejected,
\* the catch and finishConverting set state of a component that is gone, and
\* the finally block finds ffmpegRef.current null and lists nothing.  planIdx
\* still tells which plan the run was at.
RunRejected ==
  /\ ~mounted /\ pc = "terminated"
  /\ pc' = "idle"
  /\ UNCHANGED << mounted, coreLoaded, coreLoading, converting, file, now,
                  runs, planIdx, runFile, baseIdentifier, preparedTracks,
                  engineVars, ledgerVars, tracks, selectedAnswers, feedback,
                  playVars >>
  /\ renderedAnswers' = selectedAnswers'
  /\ UNCHANGED audio

(***************************************************************************)
(* Playback: AudioTrackPlayer (useSound) and the handlers of AudioQuiz.    *)
(* A Howl is the playback engine of one track: playing or not, and a       *)
(* position in seconds.  Each handler is followed by the render it causes  *)
(* and by the effects of that render.                                      *)
(***************************************************************************)
TrackIndex(id) == CHOOSE i \in 1..Len(tracks) : tracks[i].id = id

Duration(i) == blobs[tracks[i].url].dur

\* an isPlaying that compares the recorded id with the file name of the track
isPlayingByFileName(playing, i) == playing = tracks[i].fileName

\* isPlaying={playingTrackId === track.id}
isPlaying(playing, i) == playing = tracks[i].id

\* sound.play() of Howler: the Howl sounds from where it stands
HowlPlay(snd) == IF snd = NoSound THEN snd ELSE [snd EXCEPT !.playing = TRUE]

\* a pause in place of the stop: silent, position kept
HowlPause(snd) == IF snd = NoSound THEN snd ELSE [snd EXCEPT !.playing = FALSE]

\* sound.stop() of Howler: silent, position back to zero
HowlStop(snd) == IF snd = NoSound THEN snd ELSE [playing |-> FALSE, pos |-> 0]

\* a stop that clears the state whatever track it comes from
handleTrackStopAny(current, trackId) == NoTrack

\* handleTrackStop: the new playingTrackId
handleTrackStop(current, trackId) == IF current = trackId THEN NoTrack ELSE current

\* the effect of AudioTrackPlayer, run for the players whose isPlaying or
\* sound changed in the render: onSoundUpdate(trackId, sound or null)
afterRender(map, playingOld, playingNew, soundsOld, soundsNew) ==
  [i \in 1..Len(tracks) |->
     IF \/ isPlaying(playingOld, i) # isPlaying(playingNew, i)
        \/ (soundsOld[i] = NoSound) # (soundsNew[i] = NoSound)
     THEN isPlaying(playingNew, i) /\ soundsNew[i] # NoSound
     ELSE map[i]]

\* useSound: the Howl exists only once howler is imported and constructed
SoundCreated ==
  /\ mounted
  /\ \E i \in 1..Len(tracks) :
        /\ sounds[i] = NoSound
        /\ sounds' = [sounds EXCEPT ![i] = [playing |-> FALSE, pos |-> 0]]
        /\ soundMap' = afterRender(soundMap, playingTrackId, playingTrackId,
                                   sounds, sounds')
  /\ UNCHANGED << mounted, coreLoaded, coreLoading, converting, file, now,
                  runs, runVars, engineVars, ledgerVars, tracks,
                  selectedAnswers, feedback, playingTrackId, orphans, seeks >>
  /\ renderedAnswers' = selectedAnswers'
  /\ UNCHANGED audio

\* handlePlayClick of the player of tracks[i], with onStop / onPlay
HandlePlayClick ==
  /\ mounted /\ ~OverlayVisible
  /\ \E i \in 1..Len(tracks) :
        IF isPlaying(playingTrackId, i)
        THEN /\ sounds' = [sounds EXCEPT ![i] = HowlStop(@)]
             /\ playingTrackId' = handleTrackStop(playingTrackId, tracks[i].id)
             /\ soundMap' = afterRender([soundMap EXCEPT ![i] = FALSE],
                               playingTrackId, playingTrackId', sounds, sounds')
        ELSE /\ sounds' = [sounds EXCEPT ![i] = HowlPlay(@)]
             /\ playingTrackId' = tracks[i].id
             /\ soundMap' = afterRender(soundMap, playingTrackId,
                               playingTrackId', sounds, sounds')
  /\ UNCHANGED << mounted, coreLoaded, coreLoading, converting, file, now,
                  runs, runVars, engineVars, ledgerVars, tracks,
                  selectedAnswers, feedback, orphans, seeks >>
  /\ renderedAnswers' = selectedAnswers'
  /\ UNCHANGED audio

\* playback time passes for a playing Howl
Advance ==
  /\ mounted
  /\ \E i \in 1..Len(tracks) :
        /\ sounds[i].playing
        /\ sounds[i].pos < Duration(i)
        /\ sounds' = [sounds EXCEPT
                        ![i].pos = Min(@ + TickStep, Duration(i))]
  /\ UNCHANGED << mounted, coreLoaded, coreLoading, converting, file, now,
                  runs, runVars, engineVars, ledgerVars, tracks,
                  selectedAnswers, feedback, playingTrackId, soundMap,
                  orphans, seeks >>
  /\ renderedAnswers' = selectedAnswers'
  /\ UNCHANGED audio

\* an onend that also releases the locator of the track that ended
OnEndRevoking ==
  /\ mounted
  /\ \E i \in 1..Len(tracks) :
        /\ sounds[i].playing
        /\ sounds[i].pos = Duration(i)
        /\ blobs' = revokeEach(blobs, {tracks[i].url})
        /\ sounds' = [sounds EXCEPT ![i] = HowlStop(@)]
        /\ playingTrackId' = handleTrackStop(playingTrackId, tracks[i].id)
        /\ soundMap' = afterRender([soundMap EXCEPT ![i] = FALSE],
                          playingTrackId, playingTrackId', sounds, sounds')
  /\ UNCHANGED << mounted, coreLoaded, coreLoading, converting, file, now,
                  runs, runVars, engineVars, staleRevokes, objectUrls, tracks,
                  selectedAnswers, feedback, orphans, seeks >>
  /\ renderedAnswers' = selectedAnswers'
  /\ UNCHANGED audio

\* a playing Howl reaches its end: it stops, and onend calls onStop
OnEnd ==
  /\ mounted
  /\ \E i \in 1..Len(tracks) :
        /\ sounds[i].playing
        /\ sounds[i].pos = Duration(i)
        /\ sounds' = [sounds EXCEPT ![i] = HowlStop(@)]
        /\ playingTrackId' = handleTrackStop(playingTrackId, tracks[i].id)
        /\ soundMap' = afterRender([soundMap EXCEPT ![i] = FALSE],
                          playingTrackId, playingTrackId', sounds, sounds')
  /\ UNCHANGED << mounted, coreLoaded, coreLoading, converting, file, now,
                  runs, runVars, engineVars, ledgerVars, tracks,
                  selectedAnswers, feedback, orphans, seeks >>
  /\ renderedAnswers' = selectedAnswers'
  /\ UNCHANGED audio

\* a target position without the clamp
nextPositionUnclamped(currentPosition, offsetSeconds, duration) ==
  currentPosition + offsetSeconds

\* Math.min(Math.max(currentPosition + offsetSeconds, 0), duration)
nextPosition(currentPosition, offsetSeconds, duration) ==
  Min(Max(currentPosition + offsetSeconds, 0), duration)

\* handleSeek: the Howls after the call; finite tells whether the Howl
\* reports a finite duration
handleSeek(offsetSeconds, finite) ==
  IF playingTrackId = NoTrack THEN sounds
  ELSE IF ~soundMap[TrackIndex(playingTrackId)] THEN sounds
  ELSE IF ~finite THEN sounds
  ELSE LET i == TrackIndex(playingTrackId)
       IN  [sounds EXCEPT
              ![i].pos = nextPosition(@, offsetSeconds, Duration(i))]

\* handleSeek(-5) and handleSeek(5)
HandleSeek ==
  /\ mounted /\ ~OverlayVisible
  /\ seeks < MaxSeeks
  /\ \E offsetSeconds \in {-SeekStep, SeekStep} : \E finite \in BOOLEAN :
        sounds' = handleSeek(offsetSeconds, finite)
  /\ seeks' = seeks + 1
  /\ UNCHANGED << mounted, coreLoaded, coreLoading, converting, file, now,
                  runs, runVars, engineVars, ledgerVars, tracks,
                  selectedAnswers, feedback, playingTrackId, soundMap,
                  orphans >>
  /\ renderedAnswers' = selectedAnswers'
  /\ UNCHANGED audio

\* the play request of a Howl is rejected before any sound: Howler marks the
\* sound ended and emits playerror; onplayerror logs to the console
OnPlayError ==
  /\ mounted
  /\ \E i \in 1..Len(tracks) :
        /\ sounds[i].playing
        /\ sounds[i].pos = 0
        /\ sounds' = [sounds EXCEPT ![i] = HowlStop(@)]
  /\ UNCHANGED << mounted, coreLoaded, coreLoading, converting, file, now,
                  runs, runVars, engineVars, ledgerVars, tracks,
                  selectedAnswers, feedback, playingTrackId, soundMap,
                  orphans, seeks >>
  /\ renderedAnswers' = selectedAnswers'
  /\ UNCHANGED audio

\* a Howl that outlived its player plays to its end
OrphanEnds ==
  /\ \E u \in orphans : orphans' = orphans \ {u}
  /\ UNCHANGED << mounted, coreLoaded, coreLoading, converting, file, now,
                  runs, runVars, engineVars, ledgerVars, tracks,
                  selectedAnswers, feedback, playingTrackId, sounds,
                  soundMap, seeks >>
  /\ renderedAnswers' = selectedAnswers'
  /\ UNCHANGED audio

(***************************************************************************)
(* The quiz: handleAnswerChange and checkAnswers.  The page offers the     *)
(* check button only with tracks on it; the handler tests the list itself. *)
(***************************************************************************)
\* selectedAnswers[track.id], unanswered when the key is missing
answerOf(answers, trackId) ==
  IF trackId \in DOMAIN answers THEN answers[trackId] ELSE NoAnswer

\* { ...selectedAnswers, [trackId]: value }
handleAnswerChange(answers, trackId, value) ==
  [id \in DOMAIN answers \cup {trackId} |->
     IF id = trackId THEN value ELSE answers[id]]

QUALITY_LABEL_MAP(quality) ==
  CASE quality = "mp3_128" -> "mp3 128K"
    [] quality = "mp3_320" -> "mp3 320K"
    [] quality = "original" -> "Original"

\* the detail line of the track at index (from 1): label, actual, guessed
detailLine(ts, answers, index) ==
  << index, QUALITY_LABEL_MAP(ts[index].quality),
     IF answerOf(answers, ts[index].id) = NoAnswer
     THEN "unselected"
     ELSE QUALITY_LABEL_MAP(answerOf(answers, ts[index].id)) >>

\* a loop that counts the tracks instead of the correct answers
countEvery(ts, answers, n) == n

\* the loop of checkAnswers over the first n tracks: the count of correct
RECURSIVE countCorrect(_, _, _)
countCorrect(ts, answers, n) ==
  IF n = 0 THEN 0
  ELSE countCorrect(ts, answers, n - 1)
       + (IF answerOf(answers, ts[n].id) = ts[n].quality THEN 1 ELSE 0)

\* a report whose tone is success as soon as one answer is correct
scoreReportLenient(ts, answers) ==
  [text |-> "score",
   tone |-> IF countCorrect(ts, answers, Len(ts)) > 0
            THEN "success" ELSE "error",
   total |-> Len(ts),
   correct |-> countCorrect(ts, answers, Len(ts)),
   details |-> [i \in 1..Len(ts) |-> detailLine(ts, answers, i)]]

\* the message of checkAnswers and its tone
scoreReport(ts, answers) ==
  [text |-> "score",
   tone |-> IF countCorrect(ts, answers, Len(ts)) = Len(ts)
            THEN "success" ELSE "error",
   total |-> Len(ts),
   correct |-> countCorrect(ts, answers, Len(ts)),
   details |-> [i \in 1..Len(ts) |-> detailLine(ts, answers, i)]]

\* checkAnswers without its two early returns
checkAnswersUnguarded(ts, answers) == scoreReport(ts, answers)

\* the feedback checkAnswers sets
checkAnswers(ts, answers) ==
  IF Len(ts) = 0 THEN EmptyTrackSet
  ELSE IF \E i \in 1..Len(ts) : answerOf(answers, ts[i].id) = NoAnswer
       THEN IncompleteAnswers
  ELSE scoreReport(ts, answers)

\* the options every Select offers, in the order of the source
QUALITY_OPTIONS ==
  << [value |-> "mp3_128", label |-> "mp3 128K"],
     [value |-> "mp3_320", label |-> "mp3 320K"],
     [value |-> "original", label |-> "Original"] >>

\* a player that labels its button with the file name of its track
renderPlayerNamed(track, index, playing, answers) ==
  [button |-> << IF playing = track.id THEN "stop" ELSE "play",
                 track.fileName >>,
   data |-> QUALITY_OPTIONS,
   value |-> answerOf(answers, track.id)]

\* what AudioTrackPlayer renders for the track at index (from 1): the button
\* with its number, the options and the selected value
renderPlayer(track, index, playing, answers) ==
  [button |-> << IF playing = track.id THEN "stop" ELSE "play", index >>,
   data |-> QUALITY_OPTIONS,
   value |-> answerOf(answers, track.id)]

\* the track panel of AudioQuiz: one player per track in list order and the
\* seek buttons; nothing when the list is empty
renderTracks(ts, playing, answers) ==
  IF Len(ts) = 0 THEN << >>
  ELSE << [i \in 1..Len(ts) |-> renderPlayer(ts[i], i, playing, answers)],
          [seekDisabled |-> playing = NoTrack] >>

\* the Select of the player of a track changes, or is cleared
HandleAnswerChange ==
  /\ mounted /\ ~OverlayVisible
  /\ \E i \in 1..Len(tracks) : \E value \in Quality \cup {NoAnswer} :
        /\ value # answerOf(selectedAnswers, tracks[i].id)
        /\ selectedAnswers' =
             handleAnswerChange(selectedAnswers, tracks[i].id, value)
  /\ UNCHANGED << mounted, coreLoaded, coreLoading, converting, file, now,
                  runs, runVars, engineVars, ledgerVars, tracks, feedback,
                  playVars >>
  /\ renderedAnswers' = selectedAnswers'
  /\ UNCHANGED audio

CheckAnswers ==
  /\ mounted /\ ~OverlayVisible
  /\ feedback' = checkAnswers(tracks, selectedAnswers)
  /\ UNCHANGED << mounted, coreLoaded, coreLoading, converting, file, now,
                  runs, runVars, engineVars, ledgerVars, tracks,
                  selectedAnswers, playVars >>
  /\ renderedAnswers' = selectedAnswers'
  /\ UNCHANGED audio

Next ==
  \/ LoadCore
  \/ LoadCoreDone
  \/ SetFile
  \/ HandleConvertRefused
  \/ HandleConvert
  \/ WriteFileDone
  \/ ExecDone
  \/ ReadFileDone
  \/ ListDirDone
  \/ DeleteFileDone
  \/ Teardown
  \/ RunRejected

Spec == Init /\ [][Next]_vars

\* the engine answers every call, and the core load settles
SpecFair ==
  /\ Spec
  /\ WF_vars(LoadCoreDone)
  /\ WF_vars(WriteFileDone)
  /\ WF_vars(ExecDone)
  /\ WF_vars(ReadFileDone)
  /\ WF_vars(ListDirDone)
  /\ WF_vars(DeleteFileDone)

(***************************************************************************)
(* The same component from the moment a first conversion has completed and *)
(* its cleanup has been answered: the three tracks are on the page.  The   *)
(* session is followed until the next run starts or the component          *)
(* unmounts; the run itself is followed by Spec.                           *)
(***************************************************************************)
SessionTracks(f, baseId) ==
  [k \in 1..NumPlans |->
     [id |-> createTrackId(baseId, outputPlans(baseId, f)[k].quality),
      quality |-> outputPlans(baseId, f)[k].quality,
      fileName |-> outputPlans(baseId, f)[k].outputName,
      url |-> <<1, k>>]]

SessionBlobs(f, baseId, durs) ==
  [u \in {<<1, k>> : k \in 1..NumPlans} |->
     [mime |-> outputPlans(baseId, f)[u[2]].mime, dur |-> durs[u[2]]]]

InitSession ==
  /\ mounted = TRUE
  /\ coreLoaded = TRUE
  /\ coreLoading = FALSE
  /\ converting = FALSE
  /\ now = 0
  /\ runs = 1
  /\ pc = "idle"
  /\ planIdx = 0
  /\ runFile = NoFile
  /\ baseIdentifier = <<>>
  /\ preparedTracks = <<>>
  /\ fs = <<>>
  /\ pending = <<>>
  /\ \E src \in Files :
        /\ file \in {src, NoFile}
        /\ \E durs \in [1..NumPlans ->
                   UNION {ExecDurations(outputPlans(<<>>, src)[k], src.dur) :
                          k \in 1..NumPlans}] :
              /\ \A k \in 1..NumPlans :
                    durs[k] \in ExecDurations(outputPlans(<<>>, src)[k], src.dur)
              /\ blobs = SessionBlobs(src, BaseIdentifier(src, 0), durs)
              /\ tracks \in shuffle(SessionTracks(src, BaseIdentifier(src, 0)))
  /\ staleRevokes = {}
  /\ objectUrls = DOMAIN blobs
  /\ selectedAnswers = initialAnswers(tracks)
  /\ renderedAnswers = selectedAnswers
  /\ audio = AudioInit
  /\ feedback = Converted
  /\ playingTrackId = NoTrack
  /\ sounds = [i \in 1..NumPlans |-> NoSound]
  /\ soundMap = [i \in 1..NumPlans |-> FALSE]
  /\ orphans = {}
  /\ seeks = 0
  /\ faults = 0

NextSession ==
  \/ SoundCreated
  \/ HandlePlayClick
  \/ Advance
  \/ OnEnd
  \/ HandleSeek
  \/ OnPlayError
  \/ OrphanEnds
  \/ HandleConvertRefused
  \/ HandleConvert
  \/ Teardown
  \/ RunRejected

SpecSession == InitSession /\ [][NextSession]_vars

(***************************************************************************)
(* The quiz: the answers and their check, on the fresh component (no       *)
(* track yet) and on a session.                                            *)
(***************************************************************************)
InitQuiz == Init \/ InitSession

NextQuiz ==
  \/ HandleAnswerChange
  \/ CheckAnswers
  \/ Teardown

SpecQuiz == InitQuiz /\ [][NextQuiz]_vars

(***************************************************************************)
(* The answers given on a session, and the run that replaces the session.  *)
(***************************************************************************)
NextReplace ==
  \/ HandleAnswerChange
  \/ HandleConvert
  \/ WriteFileDone
  \/ ExecDone
  \/ ReadFileDone
  \/ ListDirDone
  \/ DeleteFileDone
  \/ Teardown
  \/ RunRejected

SpecReplace == InitSession /\ [][NextReplace]_vars

(***************************************************************************)
(* The program with a second handleConvert call while a run is suspended.  *)
(* handleConvert does not test converting and the convert button is        *)
(* disabled only by !coreLoaded || !file; the LoadingOverlay covers the     *)
(* page for the pointer, the button keeps the focus and answers the         *)
(* keyboard.  The second call runs up to its first await with the first     *)
(* run still waiting for its answer; the two runs are followed no further   *)
(* (pc "reentered").                                                        *)
(***************************************************************************)
HandleConvertWhileConverting ==
  /\ mounted /\ converting
  /\ pc \in {"writeFile", "exec", "readFile", "listDir"}
  /\ runs < MaxRuns
  /\ ConvertGate(coreLoaded, file).text = "pass"
  /\ playingTrackId' = NoTrack
  /\ soundMap' = <<>>
  /\ LET r == revokeTrackUrls(blobs, objectUrls)
     IN  /\ blobs' = r.blobs
         /\ objectUrls' = r.objectUrls
         /\ staleRevokes' = staleRevokes \cup r.stale
  /\ tracks' = <<>>
  /\ sounds' = <<>>
  /\ orphans' = orphans \cup StillSounding
  /\ \E ts \in now..MaxNow :
        /\ now' = ts
        /\ pending' = Append(pending,
             [op |-> "writeFile",
              name |-> InputName(BaseIdentifier(file, ts), file),
              run |-> runs + 1])
  /\ runs' = runs + 1
  /\ pc' = "reentered"
  /\ UNCHANGED << mounted, coreLoaded, coreLoading, converting, file, fs,
                  faults, planIdx, runFile, baseIdentifier, preparedTracks,
                  selectedAnswers, feedback, seeks >>
  /\ renderedAnswers' = selectedAnswers'
  /\ UNCHANGED audio

NextReentry == Next \/ HandleConvertWhileConverting

SpecReentry == Init /\ [][NextReentry]_vars

(***************************************************************************)
(* Answer changes that are not separated by a render.  handleAnswerChange  *)
(* spreads the selectedAnswers of the render its closure belongs to, not   *)
(* the pending state (setSelectedAnswers is given a value, not an updater), *)
(* so a call made before the next render starts from renderedAnswers.       *)
(***************************************************************************)
HandleAnswerChangeBeforeRender ==
  /\ mounted /\ ~OverlayVisible
  /\ \E i \in 1..Len(tracks) : \E value \in Quality \cup {NoAnswer} :
        /\ value # answerOf(renderedAnswers, tracks[i].id)
        /\ selectedAnswers' =
             handleAnswerChange(renderedAnswers, tracks[i].id, value)
  /\ UNCHANGED << mounted, coreLoaded, coreLoading, converting, file, now,
                  runs, runVars, engineVars, ledgerVars, tracks, feedback,
                  playVars, renderedAnswers >>
  /\ UNCHANGED audio

\* the component renders: the handlers now hold the current answers
Render ==
  /\ mounted
  /\ renderedAnswers # selectedAnswers
  /\ renderedAnswers' = selectedAnswers
  /\ UNCHANGED << mounted, coreLoaded, coreLoading, converting, file, now,
                  runs, runVars, engineVars, ledgerVars, tracks,
                  selectedAnswers, feedback, playVars >>
  /\ UNCHANGED audio

NextBatched ==
  \/ HandleAnswerChangeBeforeRender
  \/ Render
  \/ Teardown

SpecBatched == InitSession /\ [][NextBatched]_vars



(***************************************************************************)
(* The audio-element variant of the component: one <audio> element per     *)
(* rendered track, attached through the ref callback of getAudioRef.       *)
(*   audioRefs, limitHandlersRef, endedHandlersRef, audioRefCallbacks,     *)
(*   playingTrackIdRef: the refs of the component                          *)
(*   dom[trackId]: the element React has rendered for the track            *)
(*   media[e]: the element e, elements numbered in the order they are made *)
(*   listeners[e]: the listeners on e, as << event type, handler >>        *)
(*   handlers[h]: what the handler h closes over                           *)
(***************************************************************************)
MaxElements == 3

AudioTrackIds == {<<"a">>, <<"b">>}

Put(f, k, v) == [x \in DOMAIN f \cup {k} |-> IF x = k THEN v ELSE f[x]]

Drop(f, k) == [x \in DOMAIN f \ {k} |-> f[x]]

\* audio.pause(); audio.currentTime = 0
pauseAndRewind(m, e) ==
  [m EXCEPT ![e] = [@ EXCEPT !.paused = TRUE, !.currentTime = 0]]

\* removeEventListener for the handlers the refs hold for trackId
removeHandlers(a, trackId, e) ==
  [a.listeners EXCEPT ![e] =
     @ \ ( (IF trackId \in DOMAIN a.limitHandlersRef
            THEN {<< "timeupdate", a.limitHandlersRef[trackId] >>} ELSE {})
           \cup
           (IF trackId \in DOMAIN a.endedHandlersRef
            THEN {<< "ended", a.endedHandlersRef[trackId] >>} ELSE {}) )]

\* resetAudioRefs
resetAudioRefs(a) ==
  LET held == {a.audioRefs[t] : t \in DOMAIN a.audioRefs}
      owner(e) == CHOOSE t \in DOMAIN a.audioRefs : a.audioRefs[t] = e
  IN  [a EXCEPT
         !.media = [e \in DOMAIN a.media |->
                      IF e \in held
                      THEN [a.media[e] EXCEPT !.paused = TRUE, !.currentTime = 0]
                      ELSE a.media[e]],
         !.listeners = [e \in DOMAIN a.listeners |->
                          IF e \in held
                          THEN removeHandlers(a, owner(e), e)[e]
                          ELSE a.listeners[e]],
         !.audioRefs = EmptyMap,
         !.limitHandlersRef = EmptyMap,
         !.endedHandlersRef = EmptyMap,
         !.playingTrackIdRef = NoTrack,
         !.audioRefCallbacks = {}]

\* the cleanup of the mount effect: as resetAudioRefs, but the refs are left
teardownAudio(a) ==
  [a EXCEPT !.media = resetAudioRefs(a).media,
            !.listeners = resetAudioRefs(a).listeners]

\* the part of the ref callback that releases the element held for trackId
\* and forgets nothing else
releasePreviousKeepingListeners(a, trackId) ==
  IF trackId \in DOMAIN a.audioRefs
  THEN [a EXCEPT !.media = pauseAndRewind(a.media, a.audioRefs[trackId])]
  ELSE a

\* the ref callback, if (previous) { ... }
releasePrevious(a, trackId) ==
  IF trackId \in DOMAIN a.audioRefs
  THEN [a EXCEPT !.media = pauseAndRewind(a.media, a.audioRefs[trackId]),
                 !.listeners = removeHandlers(a, trackId, a.audioRefs[trackId])]
  ELSE a

\* the ref callback called with null
refDetach(a, trackId) ==
  LET r == releasePrevious(a, trackId)
  IN  [r EXCEPT
         !.audioRefs = Drop(r.audioRefs, trackId),
         !.limitHandlersRef = Drop(r.limitHandlersRef, trackId),
         !.endedHandlersRef = Drop(r.endedHandlersRef, trackId),
         !.playingTrackIdRef = IF @ = trackId THEN NoTrack ELSE @,
         !.audioRefCallbacks = @ \ {trackId}]

\* the ref callback called with an element
refAttach(a, trackId, instance) ==
  IF trackId \in DOMAIN a.audioRefs /\ a.audioRefs[trackId] = instance
  THEN a
  ELSE LET r == releasePrevious(a, trackId)
           limitHandler == Len(r.handlers) + 1
           endedHandler == Len(r.handlers) + 2
           closure == [trackId |-> trackId, instance |-> instance]
       IN  [r EXCEPT
              !.handlers = @ \o << closure, closure >>,
              !.listeners[instance] =
                 @ \cup {<< "timeupdate", limitHandler >>,
                         << "ended", endedHandler >>},
              !.audioRefs = Put(r.audioRefs, trackId, instance),
              !.limitHandlersRef = Put(r.limitHandlersRef, trackId, limitHandler),
              !.endedHandlersRef = Put(r.endedHandlersRef, trackId, endedHandler)]

\* React creates an <audio> element of the given duration
createElement(a, dur) ==
  [a EXCEPT
     !.media = Append(@, [paused |-> TRUE, currentTime |-> 0, dur |-> dur]),
     !.listeners = Append(@, {})]

\* limitHandler of the closure h
limitHandler(a, h) ==
  LET c == a.handlers[h]
  IN  IF a.media[c.instance].currentTime >= MAX_PLAY_SECONDS
      THEN [a EXCEPT
              !.media = pauseAndRewind(a.media, c.instance),
              !.playingTrackIdRef = IF @ = c.trackId THEN NoTrack ELSE @]
      ELSE a

\* endedHandler of the closure h
endedHandler(a, h) ==
  LET c == a.handlers[h]
  IN  [a EXCEPT
         !.media[c.instance].currentTime = 0,
         !.playingTrackIdRef = IF @ = c.trackId THEN NoTrack ELSE @]

\* the listeners of the given type on e are called, in the order they were
\* made
RECURSIVE dispatch(_, _, _, _)
dispatch(a, e, type, from) ==
  LET hs == {l[2] : l \in {x \in a.listeners[e] : x[1] = type /\ x[2] >= from}}
  IN  IF hs = {} THEN a
      ELSE LET h == CHOOSE x \in hs : \A y \in hs : x <= y
           IN  dispatch(IF type = "timeupdate" THEN limitHandler(a, h)
                        ELSE endedHandler(a, h),
                        e, type, h + 1)

\* handlePlay up to target.play(); started tells whether the play is accepted
handlePlay(a, trackId, started) ==
  IF trackId \notin DOMAIN a.audioRefs THEN a
  ELSE LET isSame == a.playingTrackIdRef = trackId
           target == a.audioRefs[trackId]
           stopped == {a.audioRefs[id] :
                         id \in {x \in DOMAIN a.audioRefs : x # trackId \/ isSame}}
           quiet == [e \in DOMAIN a.media |->
                       IF e \in stopped
                       THEN [a.media[e] EXCEPT !.paused = TRUE, !.currentTime = 0]
                       ELSE a.media[e]]
       IN  IF isSame
           THEN [a EXCEPT !.media = quiet, !.playingTrackIdRef = NoTrack]
           ELSE [a EXCEPT
                   !.media = [quiet EXCEPT ![target] =
                                [@ EXCEPT !.currentTime = 0, !.paused = ~started]],
                   !.playingTrackIdRef = IF started THEN trackId ELSE NoTrack]

componentVars ==
  << coreLoaded, coreLoading, converting, file, now, runs, pc, planIdx,
     runFile, baseIdentifier, preparedTracks, fs, pending, blobs,
     staleRevokes, objectUrls, tracks, selectedAnswers, feedback,
     playingTrackId, sounds, soundMap, orphans, seeks, faults,
     renderedAnswers >>

\* a track is rendered: getAudioRef makes and caches its callback, React
\* makes the element and calls the callback with it
MountAudio ==
  /\ mounted
  /\ Len(audio.media) < MaxElements
  /\ \E trackId \in AudioTrackIds \ DOMAIN audio.dom :
     \E dur \in {ShortDur, LongDur} :
        LET made == createElement(audio, dur)
            e == Len(made.media)
            cached == [made EXCEPT !.audioRefCallbacks = @ \cup {trackId},
                                   !.dom = Put(@, trackId, e)]
        IN  audio' = refAttach(cached, trackId, e)
  /\ UNCHANGED << mounted, componentVars >>

\* a rendered track leaves the list: React calls its callback with null
UnmountAudio ==
  /\ mounted
  /\ \E trackId \in DOMAIN audio.dom :
        audio' = [refDetach(audio, trackId) EXCEPT !.dom = Drop(@, trackId)]
  /\ UNCHANGED << mounted, componentVars >>

\* the callback of a track is called with another element while it holds one
ReplaceAudio ==
  /\ mounted
  /\ Len(audio.media) < MaxElements
  /\ \E trackId \in DOMAIN audio.dom : \E dur \in {ShortDur, LongDur} :
        LET made == createElement(audio, dur)
            e == Len(made.media)
        IN  audio' = refAttach([made EXCEPT !.dom = Put(@, trackId, e)],
                               trackId, e)
  /\ UNCHANGED << mounted, componentVars >>

RECURSIVE detachAll(_, _)
detachAll(a, ids) ==
  IF ids = {} THEN a
  ELSE LET t == CHOOSE x \in ids : TRUE
       IN  detachAll(refDetach(a, t), ids \ {t})

\* handleConvert passes its gates: resetAudioRefs, then the render of the
\* emptied list, in which React calls every callback with null
ConvertResetsAudio ==
  /\ mounted
  /\ DOMAIN audio.dom # {}
  /\ audio' = [detachAll(resetAudioRefs(audio), DOMAIN audio.dom)
                 EXCEPT !.dom = EmptyMap]
  /\ UNCHANGED << mounted, componentVars >>

\* the play button of a rendered track; the play is accepted or rejected
HandlePlay ==
  /\ mounted
  /\ \E trackId \in DOMAIN audio.dom : \E started \in BOOLEAN :
        /\ audio' = handlePlay(audio, trackId, started)
        /\ audio' # audio
  /\ UNCHANGED << mounted, componentVars >>

\* time passes on a playing element and timeupdate is dispatched
AudioAdvance ==
  /\ \E e \in DOMAIN audio.media :
        /\ ~audio.media[e].paused
        /\ audio.media[e].currentTime < audio.media[e].dur
        /\ audio' = dispatch(
             [audio EXCEPT !.media[e].currentTime =
                Min(@ + TickStep, audio.media[e].dur)],
             e, "timeupdate", 1)
  /\ UNCHANGED << mounted, componentVars >>

\* a playing element reaches its end and ended is dispatched
AudioEnded ==
  /\ \E e \in DOMAIN audio.media :
        /\ ~audio.media[e].paused
        /\ audio.media[e].currentTime = audio.media[e].dur
        /\ audio' = dispatch([audio EXCEPT !.media[e].paused = TRUE],
                             e, "ended", 1)
  /\ UNCHANGED << mounted, componentVars >>

\* the component unmounts: React calls the callbacks with null and the cleanup
\* of the mount effect runs, in either order
AudioTeardown ==
  /\ mounted
  /\ mounted' = FALSE
  /\ \/ audio' = [teardownAudio(detachAll(audio, DOMAIN audio.dom))
                    EXCEPT !.dom = EmptyMap]
     \/ audio' = [detachAll(teardownAudio(audio), DOMAIN audio.dom)
                    EXCEPT !.dom = EmptyMap]
  /\ UNCHANGED componentVars

NextAudio ==
  \/ MountAudio
  \/ UnmountAudio
  \/ ReplaceAudio
  \/ ConvertResetsAudio
  \/ HandlePlay
  \/ AudioAdvance
  \/ AudioEnded
  \/ AudioTeardown

SpecAudio == Init /\ [][NextAudio]_vars

(***************************************************************************)
(* Properties.                                                             *)
(***************************************************************************)
Sounding == {i \in 1..Len(tracks) : sounds[i].playing}

\* C1: in every reachable state at most one track is sounding; playing B
\* while A sounds leaves A stopped.  (SpecSession)
AtMostOneSounding == Cardinality(Sounding) <= 1

\* C2: the playback position of a track longer than MAX_PLAY_SECONDS never
\* exceeds MAX_PLAY_SECONDS.  (SpecSession)
PositionWithinCap ==
  \A i \in 1..Len(tracks) :
     Duration(i) > MAX_PLAY_SECONDS => sounds[i].pos <= MAX_PLAY_SECONDS

TrackListAtomic ==
  /\ Len(tracks) \in {0, NumPlans}
  /\ \A i \in 1..Len(tracks) : tracks[i].url[1] = runs
  /\ \A i, j \in 1..Len(tracks) : tracks[i].url = tracks[j].url => i = j

\* a complete list is presented by a run that follows a failure
TrackListAtomicWitness ==
  /\ runs > 1
  /\ faults > 0
  /\ Len(tracks) = NumPlans
  /\ ~converting

\* C5: once a run has returned with TranscodeFailure, no locator it created
\* is live or registered.
FailureReleasesLocators ==
  (mounted /\ ~converting /\ feedback = TranscodeFailure)
     => (objectUrls = {} /\ DOMAIN blobs = {})

\* C6: a presented list holds exactly one track per Quality, and a run that
\* returned with success presents one.
OneTrackPerQuality ==
  /\ tracks # <<>> =>
       \A q \in Quality :
          Cardinality({i \in 1..Len(tracks) : tracks[i].quality = q}) = 1
  /\ (mounted /\ ~converting /\ feedback = Converted) => Len(tracks) = NumPlans

\* the shuffle has moved the original to the front
OneTrackPerQualityWitness ==
  /\ Len(tracks) = NumPlans
  /\ tracks[1].quality = "original"
  /\ feedback = Converted

\* C7: a step that reports NotReady or NoInput changes nothing but the
\* feedback; NotReady is reported only while the core is not loaded, NoInput
\* only with the core loaded and no file; and no run starts in either case.
GateStep ==
  /\ (feedback' # feedback /\ feedback' \in {NotReady, NoInput}) =>
       UNCHANGED << mounted, coreLoaded, coreLoading, converting, file, now,
                    runs, runVars, engineVars, ledgerVars, tracks,
                    selectedAnswers, playVars >>
  /\ (feedback' # feedback /\ feedback' = NotReady) => ~coreLoaded
  /\ (feedback' # feedback /\ feedback' = NoInput) => coreLoaded /\ file = NoFile
  /\ (~coreLoaded \/ file = NoFile) =>
       /\ runs' = runs
       /\ ~(converting' /\ ~converting)
       /\ Len(pending') <= Len(pending)

GatesChangeNothing == [][GateStep]_vars

\* NoInput has been reported with a session on the page
GatesChangeNothingWitness ==
  /\ feedback = NoInput
  /\ Len(tracks) = NumPlans
  /\ objectUrls # {}

\* C8: no two engine calls of one run are in flight together.
OneCallInFlight ==
  \A i, j \in 1..Len(pending) : pending[i].run = pending[j].run => i = j

DeleteCalls(calls, r) ==
  {calls[i].name : i \in {j \in 1..Len(calls) :
                            calls[j].op = "deleteFile" /\ calls[j].run = r}}

\* C9: a run returns only through the listing of the directory, after
\* success and after failure; when the listing is answered, a deletion is
\* issued for every entry named after the session; and neither the answer to
\* the listing nor the answer to a deletion, failure included, touches the
\* track list, the answers, the feedback or the ledger.
CleanupStep ==
  /\ (pc # "idle" /\ pc' = "idle" /\ mounted') => pc = "listDir"
  /\ (pc = "listDir" /\ pc' = "idle" /\ mounted' /\ faults' = faults) =>
       DeleteCalls(pending', runs) =
         {n \in FsNames(fs) : StartsWith(n, baseIdentifier)}
  /\ (pc = "listDir" /\ mounted') =>
       UNCHANGED << tracks, selectedAnswers, feedback, ledgerVars >>
  /\ (HeadIs("deleteFile") /\ pending' = Tail(pending) /\ mounted') =>
       UNCHANGED << tracks, selectedAnswers, feedback, ledgerVars, converting >>

BestEffortCleanup == [][CleanupStep]_vars

\* a failed first run has returned, its cleanup has failed too: entries are
\* left and no deletion is in flight
BestEffortCleanupWitness ==
  /\ mounted /\ ~converting
  /\ runs = 1
  /\ feedback = TranscodeFailure
  /\ pending = <<>>
  /\ fs # <<>>

\* C10: revokeTrackUrls twice in succession: the set is empty after each
\* call, the first call revokes live locators only, the second revokes
\* nothing; on an empty set the call changes nothing.
ReleaseAllIdempotent ==
  LET r1 == revokeTrackUrls(blobs, objectUrls)
      r2 == revokeTrackUrls(r1.blobs, r1.objectUrls)
  IN  /\ r1.objectUrls = {}
      /\ r1.stale = {}
      /\ DOMAIN r1.blobs = DOMAIN blobs \ objectUrls
      /\ r2.objectUrls = {}
      /\ r2.stale = {}
      /\ r2.blobs = r1.blobs
      /\ objectUrls = {} => r1.blobs = blobs

\* the ledger holds the locators of a whole session
ReleaseAllIdempotentWitness == Cardinality(objectUrls) = NumPlans /\ ~converting

\* in SpecQuiz the feedback changes, on the mounted component, only by
\* checkAnswers
CheckStep == feedback' # feedback /\ mounted'

Unanswered ==
  {i \in 1..Len(tracks) :
     \/ tracks[i].id \notin DOMAIN selectedAnswers
     \/ selectedAnswers[tracks[i].id] \notin Quality}

\* C11: checkAnswers reports EmptyTrackSet exactly when the list is empty and
\* IncompleteAnswers exactly when a presented track has no guess; in both
\* cases the feedback carries no score and the track list and the answers
\* are unchanged.  (SpecQuiz)
ValidationStep ==
  CheckStep =>
    /\ tracks = <<>> <=> feedback' = EmptyTrackSet
    /\ (tracks # <<>> /\ Unanswered # {}) <=> feedback' = IncompleteAnswers
    /\ feedback' \in {EmptyTrackSet, IncompleteAnswers} =>
         /\ feedback'.text # "score"
         /\ DOMAIN feedback' = {"text", "tone"}
         /\ feedback'.tone = "error"
    /\ UNCHANGED << tracks, selectedAnswers >>

ChecksAreValidated == [][ValidationStep]_vars

\* IncompleteAnswers has been reported for a map with some guesses in it
ChecksAreValidatedWitness ==
  /\ feedback = IncompleteAnswers
  /\ Unanswered # {}
  /\ Cardinality(Unanswered) < Len(tracks)

Correct ==
  {i \in 1..Len(tracks) : selectedAnswers[tracks[i].id] = tracks[i].quality}

\* C12: for a complete answer map checkAnswers reports, as correct, the
\* number of tracks whose guess is the track's Quality, and as total the
\* number of tracks, with one detail line per track (index, true label,
\* guessed label); the tone is success exactly when all are correct.
\* (SpecQuiz)
ScoreStep ==
  (CheckStep /\ tracks # <<>> /\ Unanswered = {}) =>
    /\ feedback'.text = "score"
    /\ feedback'.total = Len(tracks)
    /\ feedback'.correct = Cardinality(Correct)
    /\ feedback'.tone = "success" <=> Cardinality(Correct) = Len(tracks)
    /\ feedback'.tone \in {"success", "error"}
    /\ Len(feedback'.details) = Len(tracks)
    /\ \A i \in 1..Len(tracks) :
          feedback'.details[i] =
            << i, QUALITY_LABEL_MAP(tracks[i].quality),
               QUALITY_LABEL_MAP(selectedAnswers[tracks[i].id]) >>

ScoreIsCorrectCount == [][ScoreStep]_vars

\* an exactly matching map has been scored: all correct, success
ScoreIsCorrectCountWitness ==
  /\ feedback.text = "score"
  /\ feedback.correct = NumPlans
  /\ feedback.tone = "success"

\* C13: with all guesses set to one Quality, checkAnswers reports exactly
\* one correct answer out of NumPlans, and the tone is not success, in every
\* presentation order.  (SpecQuiz)
AllSameStep ==
  (/\ CheckStep
   /\ tracks # <<>>
   /\ \E q \in Quality :
        \A i \in 1..Len(tracks) : answerOf(selectedAnswers, tracks[i].id) = q) =>
    /\ feedback'.text = "score"
    /\ feedback'.correct = 1
    /\ feedback'.total = NumPlans
    /\ feedback'.tone # "success"

AllSameScoresOne == [][AllSameStep]_vars

\* a map with the same guess everywhere has been scored, with the track of
\* that Quality presented last
AllSameScoresOneWitness ==
  /\ feedback.text = "score"
  /\ feedback.correct = 1
  /\ Len(tracks) = NumPlans
  /\ \A i \in 1..Len(tracks) :
        answerOf(selectedAnswers, tracks[i].id) = tracks[NumPlans].quality

TrackIds(ts) == {ts[i].id : i \in 1..Len(ts)}

\* C14: the step that presents the tracks of a successful run sets the
\* answers to a map whose keys are exactly the identifiers of the new tracks
\* and whose entries are all unanswered; and while tracks are presented the
\* keys of the map are their identifiers.  (SpecReplace)
PublishStep ==
  /\ (tracks = <<>> /\ tracks' # <<>>) =>
       /\ DOMAIN selectedAnswers' = TrackIds(tracks')
       /\ Cardinality(DOMAIN selectedAnswers') = NumPlans
       /\ \A id \in DOMAIN selectedAnswers' : selectedAnswers'[id] = NoAnswer
  /\ tracks' # <<>> => DOMAIN selectedAnswers' = TrackIds(tracks')

AnswersResetOnNewSession == [][PublishStep]_vars

\* the second session is on the page, nothing answered
AnswersResetOnNewSessionWitness ==
  /\ runs > 1
  /\ Len(tracks) = NumPlans
  /\ \A i \in 1..Len(tracks) : answerOf(selectedAnswers, tracks[i].id) = NoAnswer

\* C15: when a run has issued its first engine call, the locators of the
\* session before are revoked, the track list is empty, no track is recorded
\* as playing and no Howl of the session before is still sounding.
\* (SpecSession)
NewRunDiscardsSession ==
  (mounted /\ pc = "writeFile") =>
    /\ DOMAIN blobs = {}
    /\ objectUrls = {}
    /\ tracks = <<>>
    /\ playingTrackId = NoTrack
    /\ orphans = {}

Ready ==
  /\ mounted /\ ~OverlayVisible
  /\ coreLoaded /\ file # NoFile
  /\ runs < MaxRuns

\* C16: the busy flags are always cleared in the end, whatever fails; and
\* whenever the flags are clear, the core is loaded and a file is selected,
\* a run can start.  (SpecFair)
RemainsUsable ==
  /\ converting ~> ~converting
  /\ coreLoading ~> ~coreLoading
  /\ [](Ready => ENABLED HandleConvert)

\* a run has succeeded after the core load and an earlier run had failed
RemainsUsableWitness ==
  /\ faults = MaxFaults
  /\ runs > 1
  /\ mounted /\ ~converting
  /\ feedback = Converted
  /\ Len(tracks) = NumPlans

\* C17: a track that is recorded as playing and has a Howl is sounding.
\* (SpecSession)
RecordedSoundingIsSounding ==
  (playingTrackId # NoTrack /\ sounds[TrackIndex(playingTrackId)] # NoSound)
     => sounds[TrackIndex(playingTrackId)].playing

Clamp(x, lo, hi) == IF x < lo THEN lo ELSE IF x > hi THEN hi ELSE x

\* C18: a seek request changes nothing but positions; with no track recorded
\* as playing it changes nothing; otherwise it leaves every other track as
\* it is, and the recorded track either as it is (no Howl in the map, or no
\* finite duration) or at current + offset clamped to [0, duration], playing
\* as before.  (SpecSession)
SeekFrame ==
  seeks' # seeks =>
    /\ UNCHANGED << mounted, coreLoaded, coreLoading, converting, file, now,
                    runs, runVars, engineVars, ledgerVars, tracks,
                    selectedAnswers, feedback, playingTrackId, soundMap,
                    orphans >>
    /\ playingTrackId = NoTrack => sounds' = sounds
    /\ playingTrackId # NoTrack =>
         LET i == TrackIndex(playingTrackId)
         IN  /\ \A j \in 1..Len(tracks) : j # i => sounds'[j] = sounds[j]
             /\ sounds[i] = NoSound => sounds'[i] = NoSound
             /\ \/ sounds'[i] = sounds[i]
                \/ /\ sounds[i] # NoSound
                   /\ sounds'[i].playing = sounds[i].playing
                   /\ \E offset \in {-SeekStep, SeekStep} :
                        sounds'[i].pos =
                          Clamp(sounds[i].pos + offset, 0, Duration(i))

SeekIsClamped == [][SeekFrame]_vars

\* a seek forward on the short clip has stopped at the clip's end
SeekIsClampedWitness ==
  /\ seeks > 0
  /\ playingTrackId # NoTrack
  /\ sounds[TrackIndex(playingTrackId)].playing
  /\ Duration(TrackIndex(playingTrackId)) < SeekStep
  /\ sounds[TrackIndex(playingTrackId)].pos = Duration(TrackIndex(playingTrackId))

\* C19: a step that takes the recorded track out of the state (the stop
\* click on it, or its end) leaves its Howl silent at position zero, its map
\* entry empty, and every other Howl as it is; a stop for a track that is
\* not the recorded one yields the recorded one; and when a Howl that is not
\* the recorded one falls silent, the recorded track and its Howl are
\* unchanged.  (SpecSession)
StopFrame ==
  /\ (playingTrackId # NoTrack /\ playingTrackId' = NoTrack
      /\ mounted' /\ tracks' = tracks) =>
       LET i == TrackIndex(playingTrackId)
       IN  /\ sounds[i] # NoSound => sounds'[i] = [playing |-> FALSE, pos |-> 0]
           /\ sounds[i] = NoSound => sounds'[i] = NoSound
           /\ ~soundMap'[i]
           /\ \A j \in 1..Len(tracks) : j # i => sounds'[j] = sounds[j]
  /\ \A i \in 1..Len(tracks) :
        tracks[i].id # playingTrackId =>
          handleTrackStop(playingTrackId, tracks[i].id) = playingTrackId
  /\ (playingTrackId # NoTrack /\ mounted' /\ tracks' = tracks) =>
       \A j \in 1..Len(tracks) :
          (/\ tracks[j].id # playingTrackId
           /\ sounds[j].playing /\ ~sounds'[j].playing) =>
            /\ playingTrackId' = playingTrackId
            /\ sounds'[TrackIndex(playingTrackId)] =
                 sounds[TrackIndex(playingTrackId)]

StopResetsOnlyItsTrack == [][StopFrame]_vars

\* the recorded track has been stopped while another Howl, started before
\* it, plays on
StopResetsOnlyItsTrackWitness ==
  /\ mounted /\ tracks # <<>>
  /\ playingTrackId = NoTrack
  /\ \E i, j \in 1..Len(tracks) :
        /\ sounds[i].playing /\ sounds[i].pos > 0
        /\ sounds[j] = [playing |-> FALSE, pos |-> 0]

\* C20: when a Howl at the end of its track falls silent, the state becomes
\* idle if that track was the recorded one, and is unchanged if another track
\* is recorded.  (SpecSession)
EndFrame ==
  (mounted' /\ tracks' = tracks) =>
    \A i \in 1..Len(tracks) :
       (/\ sounds[i].playing /\ sounds[i].pos = Duration(i)
        /\ ~sounds'[i].playing) =>
         /\ sounds'[i].pos = 0
         /\ playingTrackId = tracks[i].id => playingTrackId' = NoTrack
         /\ playingTrackId # tracks[i].id => playingTrackId' = playingTrackId

EndOfTrackGoesIdle == [][EndFrame]_vars

\* a Howl is at the end of its track while another track is the recorded one
EndOfTrackGoesIdleWitness ==
  \E i \in 1..Len(tracks) :
     /\ sounds[i].playing /\ sounds[i].pos = Duration(i)
     /\ playingTrackId # NoTrack
     /\ playingTrackId # tracks[i].id

\* C21: a step that changes the playback state while the component stays
\* mounted and no run starts (play, stop, seek, time passing, end of track,
\* rejected play, Howl created) leaves the hosting environment's locators,
\* the ledger and the revocations as they are.  (SpecSession)
PlaybackFrame ==
  (/\ << playingTrackId, sounds, soundMap, seeks >>' #
        << playingTrackId, sounds, soundMap, seeks >>
   /\ mounted' /\ runs' = runs) =>
     UNCHANGED << blobs, staleRevokes, objectUrls >>

PlaybackKeepsLedger == [][PlaybackFrame]_vars

\* after a seek, one track is sounding past its start and another has been
\* played and stopped, with the whole session still registered and live
PlaybackKeepsLedgerWitness ==
  /\ seeks > 0
  /\ \E i, j \in 1..Len(tracks) :
        /\ sounds[i].playing /\ sounds[i].pos > 0
        /\ playingTrackId = tracks[i].id
        /\ sounds[j] = [playing |-> FALSE, pos |-> 0]
  /\ Cardinality(objectUrls) = NumPlans
  /\ DOMAIN blobs = objectUrls

\* C22: the tracks on the page are made from the file that is selected.
TracksAreOfSelectedFile ==
  (mounted /\ file # NoFile) =>
    \A i \in 1..Len(tracks) : StartsWith(tracks[i].id, baseFileName(file))

\* the same user input on a session whose tracks sit in the order ts2: the
\* guess made at each position, and the position recorded as playing
TwinAnswers(ts2) ==
  [id \in {ts2[i].id : i \in 1..Len(ts2)} |->
     answerOf(selectedAnswers,
              tracks[CHOOSE i \in 1..Len(ts2) : ts2[i].id = id].id)]

TwinPlaying(ts2) ==
  IF \E i \in 1..Len(tracks) : tracks[i].id = playingTrackId
  THEN ts2[CHOOSE i \in 1..Len(tracks) : tracks[i].id = playingTrackId].id
  ELSE playingTrackId

\* C23: for the session of a state and every session that differs from it
\* only in which Quality sits at which position, given the same input by
\* position, the rendered players (numbered buttons, options, selected
\* values) are equal, and a checkAnswers that ends without a score sets the
\* same feedback in both.  (SpecQuiz)
OrderIsNotShown ==
  \A ts2 \in shuffle(tracks) :
    /\ renderTracks(ts2, TwinPlaying(ts2), TwinAnswers(ts2)) =
         renderTracks(tracks, playingTrackId, selectedAnswers)
    /\ (CheckStep /\ feedback'.text # "score") =>
         checkAnswers(ts2, TwinAnswers(ts2)) = feedback'

QualityNotPresented == [][OrderIsNotShown]_vars

\* a check has failed for a missing guess on a session that is not in plan
\* order and has one guess made
QualityNotPresentedWitness ==
  /\ feedback = IncompleteAnswers
  /\ Len(tracks) = NumPlans
  /\ tracks[1].quality = "mp3_320"
  /\ answerOf(selectedAnswers, tracks[1].id) = "mp3_128"

RECURSIVE Factorial(_)
Factorial(n) == IF n = 0 THEN 1 ELSE n * Factorial(n - 1)

Occurrences(seq, x) == Cardinality({i \in 1..Len(seq) : seq[i] = x})

\* C25: at the step that presents the tracks of a run, every result of the
\* shuffle of the prepared list has its length and holds each prepared track
\* exactly once; the presented list is one of them; the prepared list is
\* still in plan order; and the results are all the orders of the list, six
\* for three tracks, the plan order among them.  (Spec)
ShuffleStep ==
  (tracks = <<>> /\ tracks' # <<>>) =>
    LET items == preparedTracks'
        results == shuffle(items)
    IN  /\ \A r \in results :
              /\ Len(r) = Len(items)
              /\ \A k \in 1..Len(items) : Occurrences(r, items[k]) = 1
        /\ tracks' \in results
        /\ Len(items) = NumPlans
        /\ \A k \in 1..NumPlans :
              items[k].quality = outputPlans(baseIdentifier, runFile)[k].quality
        /\ Cardinality(results) = Factorial(NumPlans)
        /\ items \in results

ShuffleIsPermutation == [][ShuffleStep]_vars

\* a session is presented in the reverse of the plan order
ShuffleIsPermutationWitness ==
  /\ pc = "listDir" /\ Len(tracks) = NumPlans
  /\ \A k \in 1..NumPlans :
        tracks[k] = preparedTracks[NumPlans + 1 - k]

\* the exec or the readFile the run is waiting for is rejected, or the output
\* file asked for is not there
Rejected ==
  /\ mounted' /\ pending' # pending
  /\ \/ pc = "exec" /\ HeadIs("exec") /\ faults' # faults /\ pc' # "readFile"
     \/ /\ pc = "readFile" /\ HeadIs("readFile")
        /\ faults' # faults \/ CurrentPlan.outputName \notin FsNames(fs)

RunCalls(calls, r) == {calls[i].op : i \in {j \in 1..Len(calls) : calls[j].run = r}}

\* C26: when the exec or the readFile of plan k is rejected, the run goes
\* straight to the listing with the failure message: the ledger holds the
\* locators of the plans before k and is not changed, no track is prepared or
\* presented, and from then until the next run starts the only calls of the
\* run in the queue are the listing and the deletions.  (Spec)
FailureStep ==
  /\ Rejected =>
       /\ pc' = "listDir" /\ feedback' = TranscodeFailure
       /\ UNCHANGED << ledgerVars, tracks, preparedTracks, planIdx >>
       /\ objectUrls = {<< runs, j >> : j \in 1..(planIdx - 1)}
       /\ Len(preparedTracks) = planIdx - 1
       /\ RunCalls(pending', runs) = {"listDir"}
  /\ (pc = "listDir" /\ feedback = TranscodeFailure /\ mounted') =>
       /\ UNCHANGED << ledgerVars, tracks >>
       /\ pc' \in {"listDir", "idle"}
  /\ (pc \in {"listDir", "idle"} /\ runs' = runs) =>
       RunCalls(pending', runs) \subseteq {"listDir", "deleteFile"}

EarlierNames ==
  DOMAIN selectedAnswers \cup FsNames(fs)
    \cup {pending[i].name : i \in 1..Len(pending)}

\* C27: the session identifier of a run that starts differs from that of
\* every earlier run: no track identifier and no file name left by an earlier
\* session begins with it.
FreshSessionStep ==
  runs' # runs =>
    \A name \in EarlierNames : ~StartsWith(name, baseIdentifier')

SessionIdIsFresh == [][FreshSessionStep]_vars

\* C28: the recorded track is the only one whose Howl is sounding, and when
\* no track is recorded no Howl is sounding.
RecordedAgreesWithEngines ==
  mounted =>
    Sounding = {i \in 1..Len(tracks) : tracks[i].id = playingTrackId}

\* a press of a play button that leaves no track recorded and the Howl of
\* the track that was recorded silent
StopClick ==
  /\ HandlePlayClick
  /\ playingTrackId' = NoTrack
  /\ \A i \in 1..Len(tracks) :
        tracks[i].id = playingTrackId => ~sounds'[i].playing

ToggleStep ==
  (mounted' /\ tracks' = tracks) =>
    \A i \in 1..Len(tracks) :
       tracks[i].id = playingTrackId =>
         /\ (playingTrackId' = playingTrackId /\ seeks' = seeks
             /\ sounds[i].playing /\ sounds'[i].playing) =>
              sounds'[i].pos >= sounds[i].pos
         /\ (playingTrackId' = NoTrack /\ Sounding \subseteq {i}) =>
              {j \in 1..Len(tracks) : sounds'[j].playing} = {}

\* C29: while a track is recorded as sounding, the press on its button is a
\* stop: it is possible whenever the page is not covered, it leaves no track
\* recorded and that Howl silent, and no press makes the recorded track start
\* again from zero; when only the recorded track was sounding, as after one
\* press from idle, the stop leaves nothing sounding.  (SpecSession)
PlayTogglesRecorded ==
  /\ []((mounted /\ ~OverlayVisible /\ playingTrackId # NoTrack) =>
          ENABLED StopClick)
  /\ [][ToggleStep]_vars

\* after one press from idle the recorded track is the only one sounding,
\* past its start, and no seek was made
PlayTogglesRecordedWitness ==
  /\ mounted /\ ~OverlayVisible /\ seeks = 0
  /\ \E i \in 1..Len(tracks) :
        /\ playingTrackId = tracks[i].id
        /\ Sounding = {i}
        /\ sounds[i].pos > 0

NoLocatorAfterTeardown ==
  ~mounted =>
    /\ DOMAIN blobs = {}
    /\ objectUrls = {}
    /\ pending = <<>>
    /\ pc \in {"idle", "terminated"}

\* the component went while the run was waiting on its second plan, after the
\* locator of the first had been registered, and the run has since ended
NoLocatorAfterTeardownWitness ==
  /\ ~mounted /\ pc = "idle"
  /\ planIdx = 2 /\ runs = 1

AwaitedRuns ==
  {pending[i].run : i \in {j \in 1..Len(pending) : pending[j].op # "deleteFile"}}

\* C32: the calls a run waits for that are outstanding belong to one run, and
\* the locators of the prepared tracks of the run in flight are live.
OneRunInFlight ==
  /\ Cardinality(AwaitedRuns) <= 1
  /\ converting =>
       \A i \in 1..Len(preparedTracks) :
          preparedTracks[i].url \in DOMAIN blobs

\* C33: a step that changes the answers of the presented tracks changes the
\* entry of one track and leaves the entry of every other track as it was.
AnswerChangeFrame ==
  (selectedAnswers' # selectedAnswers /\ mounted' /\ tracks' = tracks) =>
    \E i \in 1..Len(tracks) :
       \A j \in 1..Len(tracks) :
          j # i => answerOf(selectedAnswers', tracks[j].id) =
                     answerOf(selectedAnswers, tracks[j].id)

AnswerChangeKeepsOthers == [][AnswerChangeFrame]_vars

Attached == {audio.audioRefs[t] : t \in DOMAIN audio.audioRefs}

ListenersOf(e, type) == {l \in audio.listeners[e] : l[1] = type}

\* C34: every element carries at most one timeupdate and one ended listener,
\* an element the refs hold carries exactly the two handlers the refs record
\* for its track, and an element that was made and is no longer held
\* (replaced, detached, reset by a convert, torn down) is paused at position
\* zero and carries no listener.  (SpecAudio)
HandlersFollowElements ==
  \A e \in DOMAIN audio.media :
     /\ Cardinality(ListenersOf(e, "timeupdate")) <= 1
     /\ Cardinality(ListenersOf(e, "ended")) <= 1
     /\ (mounted /\ e \in Attached) =>
          \E t \in DOMAIN audio.audioRefs :
             /\ audio.audioRefs[t] = e
             /\ audio.listeners[e] =
                  {<< "timeupdate", audio.limitHandlersRef[t] >>,
                   << "ended", audio.endedHandlersRef[t] >>}
     /\ (~mounted \/ e \notin Attached) =>
          /\ audio.listeners[e] = {}
          /\ audio.media[e].paused
          /\ audio.media[e].currentTime = 0

\* every element the bound allows has been made and given its handlers, two
\* of them have been discarded, and an element the refs hold is playing past
\* its start
HandlersFollowElementsWitness ==
  /\ mounted
  /\ Len(audio.media) = MaxElements
  /\ \E e \in Attached : ~audio.media[e].paused /\ audio.media[e].currentTime > 0
  /\ Cardinality(DOMAIN audio.media \ Attached) >= 2
  /\ Len(audio.handlers) = 2 * MaxElements

====
